---- MODULE Spec2Model ----
(***************************************************************************)
(* Model of the price-extraction pipeline of botpreciosinformatica:        *)
(* scraper.py (detect_store, parse_price_text, the two fetch strategies    *)
(* and scrape_product) together with the contexts it is called from        *)
(* (manage.py, telegram_bot.py).                                           *)
(*                                                                         *)
(* Texts and URLs are sequences of one-character strings.  A float is the  *)
(* record [kind |-> "float", m, e] standing for m / 10^e, with e minimal.  *)
(***************************************************************************)
EXTENDS Integers, Sequences, FiniteSets, TLC

VARIABLES
    text,       \* parse_price_text: the argument
    parsed,     \* parse_price_text: the outcome (a float, None, or a raised ValueError)
    ppc,        \* parse_price_text: "ready" | "done"
    url,        \* detect_store: the argument
    detected,   \* detect_store: the returned store identifier ("" before the call)
    pc,         \* scrape_product: position in the function
    caller,     \* scrape_product: who called it (see Callers)
    product,    \* scrape_product: the product descriptor passed in
    store,      \* scrape_product: local `store`
    light,      \* what scrape_with_bs4 returned (NoCall before it ran)
    heavy,      \* what scrape_with_playwright returned (NoCall before it ran)
    data,       \* scrape_product: local `data`
    result,     \* the ScrapeResult returned (NoResult before the return)
    trace,      \* the sequence of sleeps and strategy calls made by this call
    session,    \* the browser session of the heavy strategy of this call
    pstore,     \* a parser call: the store whose parser is called
    pdoc,       \* a parser call: the document
    pdata,      \* a parser call: the dict returned (NoCall before the call)
    threads,    \* concurrent calls: the state of scrape_product in each thread
    rng,        \* concurrent calls: draws made from the shared UserAgent `ua`
    dbProducts, \* table products, rows in id order
    dbHistory,  \* table price_history, rows in id order
    now,        \* the clock read by datetime('now'), in seconds
    lastOp      \* the last command or database call and what it returned

vars == <<text, parsed, ppc, url, detected,
          pc, caller, product, store, light, heavy, data, result, trace,
          session, pstore, pdoc, pdata, threads, rng,
          dbProducts, dbHistory, now, lastOp>>

parseVars  == <<text, parsed, ppc>>
detectVars == <<url, detected>>
scrapeVars == <<pc, caller, product, store, light, heavy, data, result, trace,
                session>>
parserVars == <<pstore, pdoc, pdata>>
concVars   == <<threads, rng>>
dbVars     == <<dbProducts, dbHistory, now, lastOp>>

----------------------------------------------------------------------------
(* Bounds *)

\* longest text handed to parse_price_text
MaxLen == 5
\* most fragments an URL handed to detect_store is made of
MaxFrags == 2

\* most calls of scrape_product running at the same time
NumThreads == 2

\* most rows of price_history
MaxHistory == 2

\* latest value of the clock behind datetime('now')
MaxClock == 1

\* largest LIMIT asked of get_price_history
MaxLimit == 1

----------------------------------------------------------------------------
(* Python values *)

None == [kind |-> "None", m |-> 0, e |-> 0]
ValueError == [kind |-> "ValueError", m |-> 0, e |-> 0]

RECURSIVE Reduce(_, _)
\* m / 10^e with the trailing zeros of the fraction dropped
Reduce(m, e) ==
    IF e > 0 /\ m % 10 = 0 THEN Reduce(m \div 10, e - 1) ELSE [m |-> m, e |-> e]

Float(m, e) ==
    LET r == Reduce(m, e) IN [kind |-> "float", m |-> r.m, e |-> r.e]

\* a test for None alone, which lets 0.0 through
Truthy_NotNone(p) == p.kind = "float"

\* Python truthiness of a price: None and 0.0 are falsy
Truthy(p) == p.kind = "float" /\ p.m # 0

----------------------------------------------------------------------------
(* Sequences of characters *)

Digits == {"0", "1", "2", "3", "4", "5", "6", "7", "8", "9"}

DigitVal(c) ==
    CASE c = "0" -> 0 [] c = "1" -> 1 [] c = "2" -> 2 [] c = "3" -> 3
      [] c = "4" -> 4 [] c = "5" -> 5 [] c = "6" -> 6 [] c = "7" -> 7
      [] c = "8" -> 8 [] c = "9" -> 9

Whitespace == {" "}

Contains(s, c) == \E i \in 1..Len(s) : s[i] = c

Count(s, c) == Cardinality({i \in 1..Len(s) : s[i] = c})

\* str.rfind for a one-character needle: 0-based index of the last occurrence, -1 if none
RFind(s, c) ==
    IF Contains(s, c)
    THEN (CHOOSE i \in 1..Len(s) : s[i] = c /\ \A j \in (i+1)..Len(s) : s[j] # c) - 1
    ELSE -1

RECURSIVE Replace(_, _, _)
\* str.replace(old, new) for a one-character old and a new that is a sequence
Replace(s, old, new) ==
    IF s = <<>> THEN <<>>
    ELSE (IF Head(s) = old THEN new ELSE <<Head(s)>>) \o Replace(Tail(s), old, new)

RECURSIVE ReplaceN(_, _, _, _)
\* str.replace(old, new, n): only the first n occurrences
ReplaceN(s, old, new, n) ==
    IF s = <<>> \/ n <= 0 THEN s
    ELSE IF Head(s) = old THEN new \o ReplaceN(Tail(s), old, new, n - 1)
    ELSE <<Head(s)>> \o ReplaceN(Tail(s), old, new, n)

RECURSIVE LStrip(_)
LStrip(s) ==
    IF s # <<>> /\ Head(s) \in Whitespace THEN LStrip(Tail(s)) ELSE s

RECURSIVE RStrip(_)
RStrip(s) ==
    IF s # <<>> /\ s[Len(s)] \in Whitespace THEN RStrip(SubSeq(s, 1, Len(s) - 1)) ELSE s

\* str.strip()
Strip(s) == RStrip(LStrip(s))

\* re.sub(r'[^\d.,]', '', s)
ReSubNonPrice(s) == SelectSeq(s, LAMBDA c : c \in Digits \cup {".", ","})

RECURSIVE DigitsValue(_)
\* the integer written by a sequence of digits (0 for the empty sequence)
DigitsValue(s) ==
    IF s = <<>> THEN 0
    ELSE DigitsValue(SubSeq(s, 1, Len(s) - 1)) * 10 + DigitVal(s[Len(s)])

\* float(s) for s made of digits, '.' and ',': digits with at most one '.',
\* at least one digit, no ','; anything else raises ValueError
PyFloat(s) ==
    IF Contains(s, ",") \/ Count(s, ".") > 1 \/ ~(\E i \in 1..Len(s) : s[i] \in Digits)
    THEN ValueError
    ELSE IF Contains(s, ".")
         THEN LET dot == RFind(s, ".") + 1
                  ip  == SubSeq(s, 1, dot - 1)
                  fp  == SubSeq(s, dot + 1, Len(s))
              IN  Float(DigitsValue(ip \o fp), Len(fp))
         ELSE Float(DigitsValue(s), 0)

----------------------------------------------------------------------------
(* parse_price_text *)

\* CleanPrice with the two rfind results compared the wrong way round
CleanPrice_EarlierIsDecimal(t) ==
    LET cleaned == ReSubNonPrice(Strip(t))
    IN  IF Contains(cleaned, ",") /\ Contains(cleaned, ".")
        THEN IF RFind(cleaned, ",") < RFind(cleaned, ".")
             THEN Replace(Replace(cleaned, ".", <<>>), ",", <<".">>)
             ELSE Replace(cleaned, ",", <<>>)
        ELSE IF Contains(cleaned, ",")
        THEN Replace(cleaned, ",", <<".">>)
        ELSE IF Count(cleaned, ".") > 1
        THEN ReplaceN(cleaned, ".", <<>>, Count(cleaned, ".") - 1)
        ELSE cleaned

\* CleanPrice with every period of a text without comma dropped
CleanPrice_DropsAllPeriods(t) ==
    LET cleaned == ReSubNonPrice(Strip(t))
    IN  IF Contains(cleaned, ",") /\ Contains(cleaned, ".")
        THEN IF RFind(cleaned, ",") > RFind(cleaned, ".")
             THEN Replace(Replace(cleaned, ".", <<>>), ",", <<".">>)
             ELSE Replace(cleaned, ",", <<>>)
        ELSE IF Contains(cleaned, ",")
        THEN Replace(cleaned, ",", <<".">>)
        ELSE IF Count(cleaned, ".") > 1
        THEN Replace(cleaned, ".", <<>>)
        ELSE cleaned

\* CleanPrice with a lone comma dropped as a thousands separator
CleanPrice_DropsCommas(t) ==
    LET cleaned == ReSubNonPrice(Strip(t))
    IN  IF Contains(cleaned, ",") /\ Contains(cleaned, ".")
        THEN IF RFind(cleaned, ",") > RFind(cleaned, ".")
             THEN Replace(Replace(cleaned, ".", <<>>), ",", <<".">>)
             ELSE Replace(cleaned, ",", <<>>)
        ELSE IF Contains(cleaned, ",")
        THEN Replace(cleaned, ",", <<>>)
        ELSE IF Count(cleaned, ".") > 1
        THEN ReplaceN(cleaned, ".", <<>>, Count(cleaned, ".") - 1)
        ELSE cleaned

\* lines 71-81: the cleaned text handed to float()
CleanPrice(t) ==
    LET cleaned == ReSubNonPrice(Strip(t))
    IN  IF Contains(cleaned, ",") /\ Contains(cleaned, ".")
        THEN IF RFind(cleaned, ",") > RFind(cleaned, ".")
             THEN Replace(Replace(cleaned, ".", <<>>), ",", <<".">>)
             ELSE Replace(cleaned, ",", <<>>)
        ELSE IF Contains(cleaned, ",")
        THEN Replace(cleaned, ",", <<".">>)
        ELSE IF Count(cleaned, ".") > 1
        THEN ReplaceN(cleaned, ".", <<>>, Count(cleaned, ".") - 1)
        ELSE cleaned

\* parse_price_text without the except clause
parse_price_text_Uncaught(t) ==
    IF t = <<>> THEN None ELSE PyFloat(CleanPrice(t))

\* what the call does: a float, None, or an exception that leaves the function
parse_price_text(t) ==
    IF t = <<>> THEN None
    ELSE LET r == PyFloat(CleanPrice(t))
         IN  IF r = ValueError THEN None ELSE r

\* characters of the texts tried: two digits, both separators, a currency
\* symbol and a blank
Alphabet == {"0", "7", ",", ".", "$", " "}

\* the texts the specification and the source name
ExampleTexts ==
    { <<"1", ".", "2", "3", "4", ".", "5", "6", "7", ",", "8", "9">>,
      <<"1", ",", "2", "3", "4", ".", "5", "6">>,
      <<"1", "2", ".", "3", "4", "5">>,
      <<"1", ".", "2", "3", "4", ".", "5", "6", "7">>,
      <<"1", "2", ",", "5">>,
      <<"1", ",", "2", "3", "4", ",", "5", "6", "7">>,
      <<"$", " ", "1", ".", "2", "9", "9", ".", "9", "9", "9">> }

Texts == UNION {[1..n -> Alphabet] : n \in 0..MaxLen} \cup ExampleTexts

----------------------------------------------------------------------------
(* detect_store *)

UpperCase == <<"A", "B", "C", "D", "E", "F", "G", "H", "I", "J", "K", "L", "M">>
             \o <<"N", "O", "P", "Q", "R", "S", "T", "U", "V", "W", "X", "Y", "Z">>
LowerCase == <<"a", "b", "c", "d", "e", "f", "g", "h", "i", "j", "k", "l", "m">>
             \o <<"n", "o", "p", "q", "r", "s", "t", "u", "v", "w", "x", "y", "z">>

\* str.lower() on one character
LowerChar(c) ==
    IF \E i \in 1..Len(UpperCase) : UpperCase[i] = c
    THEN LowerCase[CHOOSE i \in 1..Len(UpperCase) : UpperCase[i] = c]
    ELSE c

\* str.lower()
Lower(s) == [i \in 1..Len(s) |-> LowerChar(s[i])]

\* Python's `pat in s` on strings
In(pat, s) ==
    \E i \in 1..(Len(s) - Len(pat) + 1) : SubSeq(s, i, i + Len(pat) - 1) = pat

S_mercadolibre == <<"m", "e", "r", "c", "a", "d", "o", "l", "i", "b", "r", "e">>
S_meli         == <<"m", "e", "l", "i">>
S_amazon       == <<"a", "m", "a", "z", "o", "n">>
S_hardgamers   == <<"h", "a", "r", "d", "g", "a", "m", "e", "r", "s">>
S_garbarino    == <<"g", "a", "r", "b", "a", "r", "i", "n", "o">>
S_fravega      == <<"f", "r", "a", "v", "e", "g", "a">>
S_musimundo    == <<"m", "u", "s", "i", "m", "u", "n", "d", "o">>
S_fullh4rd     == <<"f", "u", "l", "l", "h", "4", "r", "d">>

\* detect_store with amazon tested before mercadolibre
detect_store_AmazonFirst(u) ==
    LET url_lower == Lower(u)
    IN  IF In(S_amazon, url_lower) THEN "amazon"
        ELSE IF In(S_mercadolibre, url_lower) \/ In(S_meli, url_lower) THEN "mercadolibre"
        ELSE IF In(S_hardgamers, url_lower) THEN "hardgamers"
        ELSE IF In(S_garbarino, url_lower) THEN "garbarino"
        ELSE IF In(S_fravega, url_lower) THEN "fravega"
        ELSE IF In(S_musimundo, url_lower) THEN "musimundo"
        ELSE IF In(S_fullh4rd, url_lower) THEN "fullh4rd"
        ELSE "generic"

detect_store(u) ==
    LET url_lower == Lower(u)
    IN  IF In(S_mercadolibre, url_lower) \/ In(S_meli, url_lower) THEN "mercadolibre"
        ELSE IF In(S_amazon, url_lower) THEN "amazon"
        ELSE IF In(S_hardgamers, url_lower) THEN "hardgamers"
        ELSE IF In(S_garbarino, url_lower) THEN "garbarino"
        ELSE IF In(S_fravega, url_lower) THEN "fravega"
        ELSE IF In(S_musimundo, url_lower) THEN "musimundo"
        ELSE IF In(S_fullh4rd, url_lower) THEN "fullh4rd"
        ELSE "generic"

\* the pieces URLs are put together from: every store substring, mixed-case
\* spellings, halves of store substrings, and text that names no store
Frags ==
    { S_mercadolibre, S_meli, S_amazon, S_hardgamers, S_garbarino, S_fravega,
      S_musimundo, S_fullh4rd,
      <<"A", "M", "A", "Z", "O", "N">>,
      <<"M", "e", "L", "i">>,
      <<"m", "e">>,
      <<"l", "i">>,
      <<"a", "m", "a">>,
      <<"z", "o", "n">>,
      <<"s", "h", "o", "p", "/">> }

RECURSIVE Flatten(_)
Flatten(fs) == IF fs = <<>> THEN <<>> ELSE Head(fs) \o Flatten(Tail(fs))

URLs == {Flatten(fs) : fs \in UNION {[1..n -> Frags] : n \in 0..MaxFrags}}

----------------------------------------------------------------------------
(* Parsers, fetch strategies *)

\* A document, as far as the parsers read it:
\*   title      the text of the title element ("" when there is none)
\*   cands      the elements the price selectors of the store look for, in the
\*              order the parser tries them (an element can be absent)
\*   frac       the cents / fraction element
\*   symbol     the text of the currency symbol element
\*   stockText  the text node an unavailability phrase can occur in
\*   outOfStock whether an element with id outOfStock exists
Absent == [present |-> FALSE, text |-> <<>>]
Elem(t) == [present |-> TRUE, text |-> t]

\* the number of price selectors of parse_amazon, the parser with most
NumCands == 4

CandTexts == { <<"$">>, <<"0">>, <<"7">>, <<"7", ",", "5">> }

StockTexts == { <<>>,
                <<"S", "i", "n", " ", "S", "t", "o", "c", "k">>,
                <<"A", "G", "O", "T", "A", "D", "O">>,
                <<"O", "u", "t", " ", "o", "f", " ", "S", "t", "o", "c", "k">> }

Documents ==
    [title : {"", "Parsed title"},
     cands : [1..NumCands -> {Absent} \cup {Elem(t) : t \in CandTexts}],
     frac : {Absent, Elem(<<"5">>)},
     symbol : {"", "$", "EUR"},
     stockText : StockTexts,
     outOfStock : BOOLEAN]

NoData == [kind |-> "None"]

P_sin_stock     == <<"s", "i", "n", " ", "s", "t", "o", "c", "k">>
P_agotado       == <<"a", "g", "o", "t", "a", "d", "o">>
P_no_disponible == <<"n", "o", " ", "d", "i", "s", "p", "o", "n", "i", "b", "l", "e">>
P_unavailable   == <<"u", "n", "a", "v", "a", "i", "l", "a", "b", "l", "e">>
P_out_of_stock  == <<"o", "u", "t", " ", "o", "f", " ", "s", "t", "o", "c", "k">>

\* soup.find(string=re.compile(alternatives, re.I)) finds a text node
ReSearchI(pats, t) == \E pat \in pats : In(pat, Lower(t))

\* the first element present among the candidates lo..hi (0 when none is)
FirstPresent(doc, lo, hi) ==
    IF \E i \in lo..hi : doc.cands[i].present
    THEN CHOOSE i \in lo..hi :
            doc.cands[i].present /\ \A j \in lo..(i - 1) : ~doc.cands[j].present
    ELSE 0

\* price text of a candidate with the fraction element appended after a "."
WithFraction(doc, t) ==
    IF doc.frac.present THEN t \o <<".">> \o doc.frac.text ELSE t

\* lines 99-113: `span or meta` is the first of the two elements present,
\* and that element alone is parsed
parse_mercadolibre_price(doc) ==
    LET k == FirstPresent(doc, 1, 2)
    IN  IF k = 0 THEN None
        ELSE IF k = 2 THEN parse_price_text(doc.cands[2].text)
        ELSE parse_price_text(WithFraction(doc, doc.cands[1].text))

parse_mercadolibre(doc) ==
    [kind     |-> "dict",
     price    |-> parse_mercadolibre_price(doc),
     currency |-> "ARS",
     in_stock |-> ~ReSearchI({P_sin_stock, P_agotado, P_no_disponible}, doc.stockText),
     name     |-> doc.title]

RECURSIVE parse_amazon_price(_, _, _)
\* lines 138-148: the loop over price_selectors from selector i on, `last`
\* being result["price"] so far
parse_amazon_price(doc, i, last) ==
    IF i > NumCands THEN last
    ELSE IF ~doc.cands[i].present THEN parse_amazon_price(doc, i + 1, last)
    ELSE LET t == doc.cands[i].text
             price_text == IF doc.frac.present /\ ~Contains(t, ".")
                           THEN t \o <<".">> \o doc.frac.text ELSE t
             price == parse_price_text(price_text)
         IN  IF Truthy(price) THEN price
             ELSE parse_amazon_price(doc, i + 1, price)

parse_amazon(doc) ==
    [kind     |-> "dict",
     price    |-> parse_amazon_price(doc, 1, None),
     currency |-> IF doc.symbol = "EUR" THEN "EUR" ELSE "USD",
     in_stock |-> ~(doc.outOfStock
                    \/ ReSearchI({P_unavailable, P_out_of_stock}, doc.stockText)),
     name     |-> doc.title]

parse_hardgamers(doc) ==
    LET k == FirstPresent(doc, 1, 2)
    IN  [kind     |-> "dict",
         price    |-> IF k = 0 THEN None ELSE parse_price_text(doc.cands[k].text),
         currency |-> "ARS",
         in_stock |-> ~ReSearchI({P_sin_stock, P_agotado}, doc.stockText),
         name     |-> doc.title]

RECURSIVE parse_generic_classes(_, _)
\* lines 207-212: the loop over the elements whose class matches price|precio
parse_generic_classes(doc, i) ==
    IF i > NumCands THEN None
    ELSE IF ~doc.cands[i].present THEN parse_generic_classes(doc, i + 1)
    ELSE LET price == parse_price_text(doc.cands[i].text)
         IN  IF Truthy(price) /\ price.m > 0 THEN price
             ELSE parse_generic_classes(doc, i + 1)

\* cands[1] is the product:price:amount meta, the others the class elements
parse_generic(doc) ==
    [kind     |-> "dict",
     price    |-> IF doc.cands[1].present
                  THEN parse_price_text(doc.cands[1].text)
                  ELSE parse_generic_classes(doc, 2),
     currency |-> "ARS",
     in_stock |-> TRUE,
     name     |-> doc.title]

\* PARSERS.get(store, parse_generic)(soup, url)
Parser(st, doc) ==
    CASE st = "mercadolibre" -> parse_mercadolibre(doc)
      [] st = "amazon"       -> parse_amazon(doc)
      [] st = "hardgamers"   -> parse_hardgamers(doc)
      [] OTHER               -> parse_generic(doc)

\* the documents the fetches of scrape_product are tried on: one price
\* candidate, no outOfStock element
FetchedDocuments ==
    {d \in Documents :
        /\ \A i \in 2..NumCands : ~d.cands[i].present
        /\ ~d.outOfStock}

\* what requests.get / raise_for_status can do
LightOutcomes ==
    {[kind |-> k] : k \in {"transport_error", "http_error", "timeout"}}
    \cup {[kind |-> "document", doc |-> d] : d \in FetchedDocuments}

\* what the browser session can do
HeavyOutcomes ==
    {[kind |-> k] : k \in {"import_error", "launch_error", "navigation_timeout",
                           "render_crash"}}
    \cup {[kind |-> "document", doc |-> d] : d \in FetchedDocuments}

\* The browser session of one scrape_with_playwright_async call: whether
\* chromium was launched, whether the browser is still open when the call
\* returns, and the calls that closed it.  `async with async_playwright()`
\* stops Playwright, and with it a browser still open, on every way out of the
\* block; `await browser.close()` is reached only after page.content().
NoSession == [launched |-> FALSE, open |-> FALSE, closedBy |-> <<>>]

\* BrowserSession with Playwright started outside an `async with` block
BrowserSession_NoScope(o) ==
    IF o.kind \in {"import_error", "launch_error"} THEN NoSession
    ELSE IF o.kind = "document"
    THEN [launched |-> TRUE, open |-> FALSE, closedBy |-> <<"browser.close">>]
    ELSE [launched |-> TRUE, open |-> TRUE, closedBy |-> <<>>]

BrowserSession(o) ==
    IF o.kind \in {"import_error", "launch_error"} THEN NoSession
    ELSE IF o.kind = "document"
    THEN [launched |-> TRUE, open |-> FALSE, closedBy |-> <<"browser.close">>]
    ELSE [launched |-> TRUE, open |-> FALSE, closedBy |-> <<"async_playwright.__aexit__">>]

scrape_with_bs4(st, o) ==
    IF o.kind # "document" THEN NoData
    ELSE LET d == Parser(st, o.doc)
         IN  IF Truthy(d.price) THEN d ELSE NoData

scrape_with_playwright_async(st, o) ==
    IF o.kind # "document" THEN NoData
    ELSE LET d == Parser(st, o.doc)
         IN  IF Truthy(d.price) THEN d ELSE NoData

----------------------------------------------------------------------------
(* The callers of scrape_product *)

Callers ==
    {"manage.cmd_add", "manage.cmd_check",
     "telegram_bot.cmd_agregar", "telegram_bot.cmd_chequear",
     "telegram_bot.scheduled_check"}

\* the coroutines of telegram_bot.py run on the event loop of run_polling
RunningLoop(c) ==
    c \in {"telegram_bot.cmd_agregar", "telegram_bot.cmd_chequear",
           "telegram_bot.scheduled_check"}

ProductURLs == { <<"a", "m", "a", "z", "o", "n", "/", "d", "p">>,
                 <<"s", "h", "o", "p", "/">>,
                 <<"M", "e", "L", "i", "/", "p">> }

\* product descriptors: the temporary one of the add commands (id 0) and rows
\* of the products table; the store is the detected one or unset
Products ==
    UNION {{[id |-> i, name |-> n, url |-> u, store |-> s] :
               i \in {0, 1}, n \in {"Nuevo producto", "GPU"},
               s \in {"", detect_store(u)}} : u \in ProductURLs}

NoCall == [kind |-> "NoCall"]
NoResult == [kind |-> "NoResult"]
NoProduct == [id |-> 0, name |-> "", url |-> <<>>, store |-> ""]

NoError == [isNone |-> TRUE, msg |-> ""]
ErrorBoth ==
    [isNone |-> FALSE, msg |-> "No se pudo extraer el precio con BS4 ni Playwright."]

\* the success branch with the priority of the two names swapped
SuccessResult_InputNameFirst(p, st, d) ==
    [kind |-> "ScrapeResult", product_id |-> p.id,
     name |-> IF p.name # "" THEN p.name ELSE d.name,
     url |-> p.url, store |-> st, price |-> d.price,
     currency |-> d.currency, in_stock |-> d.in_stock, error |-> NoError]

\* ScrapeResult(...) of the success branch
SuccessResult(p, st, d) ==
    [kind |-> "ScrapeResult", product_id |-> p.id,
     name |-> IF d.name # "" THEN d.name ELSE p.name,
     url |-> p.url, store |-> st, price |-> d.price,
     currency |-> d.currency, in_stock |-> d.in_stock, error |-> NoError]

\* the failure branch without its error text
FailedResult_NoError(p, st) ==
    [kind |-> "ScrapeResult", product_id |-> p.id, name |-> p.name,
     url |-> p.url, store |-> st, price |-> None,
     currency |-> "ARS", in_stock |-> FALSE, error |-> NoError]

\* the failure branch with the dataclass default left for the stock flag
FailedResult_InStock(p, st) ==
    [kind |-> "ScrapeResult", product_id |-> p.id, name |-> p.name,
     url |-> p.url, store |-> st, price |-> None,
     currency |-> "ARS", in_stock |-> TRUE, error |-> ErrorBoth]

\* ScrapeResult(...) of the failure branch
FailedResult(p, st) ==
    [kind |-> "ScrapeResult", product_id |-> p.id, name |-> p.name,
     url |-> p.url, store |-> st, price |-> None,
     currency |-> "ARS", in_stock |-> FALSE, error |-> ErrorBoth]

HasPrice(d) == d # NoData /\ Truthy(d.price)

----------------------------------------------------------------------------
(* scrape_product, one action per step *)

\* lines 306-312: the call and the store resolution
Call(c, p) ==
    /\ pc = "idle"
    /\ pc' = "sleep"
    /\ caller' = c
    /\ product' = p
    /\ store' = IF p.store # "" THEN p.store ELSE detect_store(p.url)
    /\ light' = NoCall
    /\ heavy' = NoCall
    /\ data' = NoData
    /\ result' = NoResult
    /\ trace' = <<>>
    /\ session' = NoSession
    /\ UNCHANGED <<parseVars, detectVars, parserVars, concVars, dbVars>>

\* line 314: time.sleep(SCRAPE_DELAY)
Sleep ==
    /\ pc = "sleep"
    /\ pc' = "bs4"
    /\ trace' = Append(trace, "sleep")
    /\ UNCHANGED <<caller, product, store, light, heavy, data, result, session>>
    /\ UNCHANGED <<parseVars, detectVars, parserVars, concVars, dbVars>>

\* the lightweight attempt going to the result without the fallback
Bs4_NoFallback(o) ==
    /\ pc = "bs4"
    /\ light' = scrape_with_bs4(store, o)
    /\ data' = light'
    /\ trace' = Append(trace, "bs4")
    /\ pc' = "assemble"
    /\ UNCHANGED <<caller, product, store, heavy, result, session>>
    /\ UNCHANGED <<parseVars, detectVars, parserVars, concVars, dbVars>>

\* lines 316-321: the lightweight attempt and the test that follows it
Bs4(o) ==
    /\ pc = "bs4"
    /\ light' = scrape_with_bs4(store, o)
    /\ data' = light'
    /\ trace' = Append(trace, "bs4")
    /\ pc' = IF HasPrice(data') THEN "assemble" ELSE "fallback"
    /\ UNCHANGED <<caller, product, store, heavy, result, session>>
    /\ UNCHANGED <<parseVars, detectVars, parserVars, concVars, dbVars>>

\* the fallback with a pacing delay of its own
Playwright_SleepsAgain(o) ==
    /\ pc = "fallback"
    /\ trace' = trace \o <<"sleep", "playwright">>
    /\ IF RunningLoop(caller)
       THEN /\ pc' = "raised"
            /\ UNCHANGED <<heavy, data, session>>
       ELSE /\ heavy' = scrape_with_playwright_async(store, o)
            /\ session' = BrowserSession(o)
            /\ data' = heavy'
            /\ pc' = "assemble"
    /\ UNCHANGED <<caller, product, store, light, result>>
    /\ UNCHANGED <<parseVars, detectVars, parserVars, concVars, dbVars>>

\* lines 322-323 with scrape_with_playwright (292-294): asyncio.run raises
\* RuntimeError when the calling thread already runs an event loop, before the
\* coroutine starts; nothing in scrape_product catches it
Playwright(o) ==
    /\ pc = "fallback"
    /\ trace' = Append(trace, "playwright")
    /\ IF RunningLoop(caller)
       THEN /\ pc' = "raised"
            /\ UNCHANGED <<heavy, data, session>>
       ELSE /\ heavy' = scrape_with_playwright_async(store, o)
            /\ session' = BrowserSession(o)
            /\ data' = heavy'
            /\ pc' = "assemble"
    /\ UNCHANGED <<caller, product, store, light, result>>
    /\ UNCHANGED <<parseVars, detectVars, parserVars, concVars, dbVars>>

\* lines 325-348: the ScrapeResult
Return ==
    /\ pc = "assemble"
    /\ result' = IF HasPrice(data) THEN SuccessResult(product, store, data)
                 ELSE FailedResult(product, store)
    /\ pc' = "done"
    /\ UNCHANGED <<caller, product, store, light, heavy, data, trace, session>>
    /\ UNCHANGED <<parseVars, detectVars, parserVars, concVars, dbVars>>

----------------------------------------------------------------------------
(* The calls of the two pure functions *)

ParsePrice ==
    /\ ppc = "ready"
    /\ parsed' = parse_price_text(text)
    /\ ppc' = "done"
    /\ UNCHANGED <<text, detectVars, scrapeVars, parserVars, concVars, dbVars>>

DetectStore ==
    /\ detected = ""
    /\ detected' = detect_store(url)
    /\ UNCHANGED <<url, parseVars, scrapeVars, parserVars, concVars, dbVars>>

----------------------------------------------------------------------------
(* scrape_product as one call *)

Raised == [kind |-> "RuntimeError"]

\* lines 301-348 from the call to the return: the ScrapeResult, or the
\* exception that leaves the function, for caller c, product p and the
\* outcomes lo, ho of the two fetches
scrape_product(c, p, lo, ho) ==
    LET st == IF p.store # "" THEN p.store ELSE detect_store(p.url)
        l  == scrape_with_bs4(st, lo)
    IN  IF HasPrice(l) THEN SuccessResult(p, st, l)
        ELSE IF RunningLoop(c) THEN Raised
        ELSE LET h == scrape_with_playwright_async(st, ho)
             IN  IF HasPrice(h) THEN SuccessResult(p, st, h)
                 ELSE FailedResult(p, st)

----------------------------------------------------------------------------
(* scrape_product called in several threads at once *)

\* the threads, one call of scrape_product in each
Threads == 1..NumThreads

ThreadURLs == <<S_amazon, S_fravega, S_meli>>

\* the product of thread t: every thread has its own
ThreadProduct(t) ==
    [id |-> t, name |-> "GPU", url |-> ThreadURLs[((t - 1) % Len(ThreadURLs)) + 1],
     store |-> ""]

\* a fetched page with a title whose first price element holds t
PlainDocument(t) ==
    [title |-> "Parsed title",
     cands |-> [i \in 1..NumCands |-> IF i = 1 THEN Elem(t) ELSE Absent],
     frac |-> Absent, symbol |-> "", stockText |-> <<>>, outOfStock |-> FALSE]

ThreadDocuments == {PlainDocument(<<"7">>), PlainDocument(<<"$">>)}

ThreadLight ==
    {[kind |-> "transport_error"]}
    \cup {[kind |-> "document", doc |-> d] : d \in ThreadDocuments}

ThreadHeavy ==
    {[kind |-> "navigation_timeout"]}
    \cup {[kind |-> "document", doc |-> d] : d \in ThreadDocuments}

\* the locals of scrape_product in a thread that has just been called; lo and
\* ho are what the two fetches of this call found, agents the values this call
\* drew from the module-level `ua`
ThreadStart(t) ==
    [pc |-> "sleep", product |-> ThreadProduct(t),
     store |-> detect_store(ThreadProduct(t).url),
     lo |-> NoCall, ho |-> NoCall, agents |-> <<>>,
     data |-> NoData, result |-> NoResult]

TSleep(t) ==
    /\ threads[t].pc = "sleep"
    /\ threads' = [threads EXCEPT ![t].pc = "bs4"]
    /\ UNCHANGED rng

\* the step building the result from whatever strategy data was written last
\* by any thread, as if `data` were a module-level variable
TReturn_SharedData(t) ==
    /\ threads[t].pc = "assemble"
    /\ LET u == CHOOSE u \in Threads :
                    \A v \in Threads : Len(threads[v].agents) <= Len(threads[u].agents)
           d == threads[u].data
       IN  threads' = [threads EXCEPT
              ![t].pc = "done",
              ![t].result = IF HasPrice(d)
                            THEN SuccessResult(threads[t].product, threads[t].store, d)
                            ELSE FailedResult(threads[t].product, threads[t].store)]
    /\ UNCHANGED rng

\* lines 233-253 and 318-321: ua.random reads and advances the state shared by
\* all threads; the dict returned depends on the document alone
TBs4(t, o) ==
    /\ threads[t].pc = "bs4"
    /\ rng' = rng + 1
    /\ LET d == scrape_with_bs4(threads[t].store, o)
       IN  threads' = [threads EXCEPT
              ![t].lo = o,
              ![t].agents = Append(@, rng),
              ![t].data = d,
              ![t].pc = IF HasPrice(d) THEN "assemble" ELSE "fallback"]

\* lines 260-294 and 322-323: a worker thread runs no event loop, so
\* asyncio.run starts one; ua.random is drawn for the browser context
TPlaywright(t, o) ==
    /\ threads[t].pc = "fallback"
    /\ rng' = rng + (IF o.kind = "import_error" THEN 0 ELSE 1)
    /\ threads' = [threads EXCEPT
          ![t].ho = o,
          ![t].agents = IF o.kind = "import_error" THEN @ ELSE Append(@, rng),
          ![t].data = scrape_with_playwright_async(threads[t].store, o),
          ![t].pc = "assemble"]

\* lines 325-348
TReturn(t) ==
    /\ threads[t].pc = "assemble"
    /\ LET d == threads[t].data
       IN  threads' = [threads EXCEPT
              ![t].pc = "done",
              ![t].result = IF HasPrice(d)
                            THEN SuccessResult(threads[t].product, threads[t].store, d)
                            ELSE FailedResult(threads[t].product, threads[t].store)]
    /\ UNCHANGED rng

ThreadStep(t) ==
    /\ \/ TSleep(t)
       \/ \E o \in ThreadLight : TBs4(t, o)
       \/ \E o \in ThreadHeavy : TPlaywright(t, o)
       \/ TReturn(t)
    /\ UNCHANGED <<parseVars, detectVars, scrapeVars, parserVars, dbVars>>

----------------------------------------------------------------------------
(* database.py: the two tables and the functions over them *)

\* lines 56-76: the INSERT, or on a url already stored (the UNIQUE constraint)
\* the id of the row that has it; that row is left as it is
add_product(prods, name, u, st) ==
    IF \E i \in DOMAIN prods : prods[i].url = u
    THEN [products |-> prods,
          id |-> prods[CHOOSE i \in DOMAIN prods : prods[i].url = u].id]
    ELSE [products |-> Append(prods, [id |-> Len(prods) + 1, name |-> name,
                                      url |-> u, store |-> st, active |-> TRUE]),
          id |-> Len(prods) + 1]

\* lines 79-86
get_active_products(prods) == SelectSeq(prods, LAMBDA r : r.active)

\* lines 89-98: checked_at is the clock at the insert
save_price(hist, pid, price, currency, in_stock, t) ==
    Append(hist, [id |-> Len(hist) + 1, product_id |-> pid, price |-> price,
                  currency |-> currency, in_stock |-> in_stock, checked_at |-> t])

\* a hard delete: the row is taken out of the table
remove_product_Delete(prods, id) == SelectSeq(prods, LAMBDA r : r.id # id)

\* lines 136-143
remove_product(prods, id) ==
    [i \in DOMAIN prods |->
        IF prods[i].id = id THEN [prods[i] EXCEPT !.active = FALSE] ELSE prods[i]]

\* the columns both history queries select
Columns(r) ==
    [price |-> r.price, currency |-> r.currency, in_stock |-> r.in_stock,
     checked_at |-> r.checked_at]

\* the orders in which ORDER BY checked_at ASC can deliver the rows of product
\* pid: rows with the same checked_at come in an order SQL leaves open
AscendingOrders(hist, pid) ==
    LET I == {i \in DOMAIN hist : hist[i].product_id = pid}
    IN  {o \in [1..Cardinality(I) -> I] :
            /\ \A a, b \in DOMAIN o : a # b => o[a] # o[b]
            /\ \A a, b \in DOMAIN o :
                   a < b => hist[o[a]].checked_at <= hist[o[b]].checked_at}

\* lines 101-117: the possible results of the query, LIMIT cutting each order
\* after its first `limit` rows
get_price_history(hist, pid, limit) ==
    {[k \in 1..(IF Len(o) < limit THEN Len(o) ELSE limit) |-> Columns(hist[o[k]])] :
        o \in AscendingOrders(hist, pid)}

----------------------------------------------------------------------------
(* the commands of manage.py and telegram_bot.py that add and remove products *)

StartsWith(s, prefix) ==
    Len(s) >= Len(prefix) /\ SubSeq(s, 1, Len(prefix)) = prefix

Http == <<"h", "t", "t", "p">>

\* the urls typed by the user
CommandURLs ==
    { Http \o <<":", "/", "/">> \o S_amazon,
      Http \o <<"s", ":", "/", "/">> \o S_fravega }

\* an argument of /agregar that is not an http url
NotAURL == S_fravega \o <<"/", "p">>

\* the optional name of both add commands; "" is no name given
CommandNames == {"", "GPU"}

CommandIds == 1..2

CommandDocuments == {PlainDocument(<<"7">>)}

CommandLight ==
    {[kind |-> "transport_error"]}
    \cup {[kind |-> "document", doc |-> d] : d \in CommandDocuments}

CommandHeavy ==
    {[kind |-> "navigation_timeout"]}
    \cup {[kind |-> "document", doc |-> d] : d \in CommandDocuments}

\* the descriptor both add commands hand to scrape_product (manage.py line 17,
\* telegram_bot.py line 135)
TempProduct(u, name) ==
    [id |-> 0, name |-> IF name # "" THEN name ELSE "Nuevo producto",
     url |-> u, store |-> detect_store(u)]

\* what the last command was given and how it ended
Op(kind, u, name, id, limit, status, rows) ==
    [kind |-> kind, url |-> u, name |-> name, id |-> id, limit |-> limit,
     status |-> status, rows |-> rows]

\* manage.py lines 11-29, from the scrape to the insert of the first price
cmd_add(u, name_override, lo, ho) ==
    /\ Len(dbHistory) < MaxHistory
    /\ \E temp \in {TempProduct(u, name_override)} :
       \E res \in {scrape_product("manage.cmd_add", temp, lo, ho)} :
       \E name \in {IF name_override # "" THEN name_override
                    ELSE IF res.name # "" THEN res.name
                    ELSE "Producto de {store}"} :
       \E added \in {add_product(dbProducts, name, u, temp.store)} :
           /\ dbProducts' = added.products
           /\ dbHistory' = IF Truthy(res.price)
                           THEN save_price(dbHistory, added.id, res.price,
                                           res.currency, res.in_stock, now)
                           ELSE dbHistory
           /\ lastOp' = Op("cmd_add", u, name_override, added.id, 0,
                           IF Truthy(res.price) THEN "added with price"
                           ELSE "added without price", <<>>)
    /\ UNCHANGED now
    /\ UNCHANGED <<parseVars, detectVars, scrapeVars, parserVars, concVars>>

\* manage.py lines 46-48
cmd_remove(id) ==
    /\ dbProducts' = remove_product(dbProducts, id)
    /\ lastOp' = Op("cmd_remove", <<>>, "", id, 0, "removed", <<>>)
    /\ UNCHANGED <<dbHistory, now>>
    /\ UNCHANGED <<parseVars, detectVars, scrapeVars, parserVars, concVars>>

\* telegram_bot.py lines 139-146: the reply without an insert
NotAdded(res) == ~res.error.isNone /\ ~Truthy(res.price)

\* telegram_bot.py lines 113-167; args is the url followed by the words of the
\* name. The handler runs on the bot's event loop, and an exception of
\* scrape_product leaves it before anything is stored.
cmd_agregar(u, custom_name, lo, ho) ==
    /\ Len(dbHistory) < MaxHistory
    /\ \E temp \in {TempProduct(u, custom_name)} :
       \E res \in {IF StartsWith(u, Http)
                   THEN scrape_product("telegram_bot.cmd_agregar", temp, lo, ho)
                   ELSE NoResult} :
       \E name \in {IF custom_name # "" THEN custom_name
                    ELSE IF res \notin {NoResult, Raised} /\ res.name # "" THEN res.name
                    ELSE "Producto de {store}"} :
       \E added \in {add_product(dbProducts, name, u, temp.store)} :
           IF ~StartsWith(u, Http)
           THEN /\ lastOp' = Op("cmd_agregar", u, custom_name, 0, 0, "not a url", <<>>)
                /\ UNCHANGED <<dbProducts, dbHistory>>
           ELSE IF res = Raised
           THEN /\ lastOp' = Op("cmd_agregar", u, custom_name, 0, 0, "raised", <<>>)
                /\ UNCHANGED <<dbProducts, dbHistory>>
           ELSE IF NotAdded(res)
           THEN /\ lastOp' = Op("cmd_agregar", u, custom_name, 0, 0,
                                "no price, not added", <<>>)
                /\ UNCHANGED <<dbProducts, dbHistory>>
           ELSE /\ dbProducts' = added.products
                /\ dbHistory' = IF Truthy(res.price)
                                THEN save_price(dbHistory, added.id, res.price,
                                                res.currency, res.in_stock, now)
                                ELSE dbHistory
                /\ lastOp' = Op("cmd_agregar", u, custom_name, added.id, 0,
                                IF Truthy(res.price) THEN "added with price"
                                ELSE "added without price", <<>>)
    /\ UNCHANGED now
    /\ UNCHANGED <<parseVars, detectVars, scrapeVars, parserVars, concVars>>

\* telegram_bot.py lines 291-313
cmd_eliminar(id) ==
    /\ IF \E i \in DOMAIN dbProducts : dbProducts[i].id = id /\ dbProducts[i].active
       THEN /\ dbProducts' = remove_product(dbProducts, id)
            /\ lastOp' = Op("cmd_eliminar", <<>>, "", id, 0, "removed", <<>>)
       ELSE /\ lastOp' = Op("cmd_eliminar", <<>>, "", id, 0, "not found", <<>>)
            /\ UNCHANGED dbProducts
    /\ UNCHANGED <<dbHistory, now>>
    /\ UNCHANGED <<parseVars, detectVars, scrapeVars, parserVars, concVars>>

\* database.py lines 101-117, called for a chart of product pid
GetPriceHistory(pid, limit) ==
    /\ \E rows \in get_price_history(dbHistory, pid, limit) :
           lastOp' = Op("get_price_history", <<>>, "", pid, limit, "rows", rows)
    /\ UNCHANGED <<dbProducts, dbHistory, now>>
    /\ UNCHANGED <<parseVars, detectVars, scrapeVars, parserVars, concVars>>

\* datetime('now') moves on
Tick ==
    /\ now < MaxClock
    /\ now' = now + 1
    /\ UNCHANGED <<dbProducts, dbHistory, lastOp>>
    /\ UNCHANGED <<parseVars, detectVars, scrapeVars, parserVars, concVars>>

----------------------------------------------------------------------------
(* the price checks: scheduled_check and /chequear of the bot, manage.py check *)

\* PRICE_DROP_THRESHOLD_PERCENT, by default
DROP_THRESHOLD == 5

RECURSIVE Pow10(_)
Pow10(n) == IF n = 0 THEN 1 ELSE 10 * Pow10(n - 1)

\* telegram_bot.py lines 366-368: ((new - old) / old) * 100 <= -DROP_THRESHOLD
\* for an old price above 0, both sides multiplied by old * 10^(old.e + new.e)
IsDrop(old, new) ==
    (new.m * Pow10(old.e) - old.m * Pow10(new.e)) * 100
        <= (0 - DROP_THRESHOLD) * old.m * Pow10(new.e)

NoRow == [kind |-> "no row"]

\* database.py lines 120-133: the possible results of ORDER BY checked_at DESC
\* LIMIT 1, any of the product's rows with the latest checked_at, or None
get_last_price(hist, pid) ==
    LET I == {i \in DOMAIN hist : hist[i].product_id = pid}
    IN  IF I = {} THEN {NoRow}
        ELSE {Columns(hist[i]) :
                i \in {j \in I : \A k \in I : hist[k].checked_at <= hist[j].checked_at}}

\* telegram_bot.py lines 365-390: the notifications scheduled_check decides on
\* for one product once the new price is saved
Decision(last, res) ==
    IF last # NoRow /\ Truthy(last.price) /\ last.price.m > 0
    THEN IF IsDrop(last.price, res.price) THEN <<"drop">>
         ELSE IF ~last.in_stock /\ res.in_stock THEN <<"back in stock">>
         ELSE <<>>
    ELSE <<>>

\* a page whose first price element holds t, with a stock notice
StockDocument(t, notice) == [PlainDocument(t) EXCEPT !.stockText = notice]

CheckDocuments ==
    {PlainDocument(<<"2", "0">>), PlainDocument(<<"1", "9">>), PlainDocument(<<"0">>),
     StockDocument(<<"2", "0">>, <<"O", "u", "t", " ", "o", "f", " ", "S", "t", "o", "c", "k">>)}

CheckLight ==
    {[kind |-> "transport_error"]}
    \cup {[kind |-> "document", doc |-> d] : d \in CheckDocuments}

CheckHeavy ==
    {[kind |-> "navigation_timeout"],
     [kind |-> "document", doc |-> PlainDocument(<<"2", "0">>)]}

\* what one product's two fetches find during a check
CheckOutcomes(c) ==
    [lo : CheckLight,
     ho : IF RunningLoop(c) THEN {[kind |-> "navigation_timeout"]} ELSE CheckHeavy]

\* the record of one product whose price a check saved: the row read before
\* the insert, the values inserted, what was decided about a notification and
\* the notification sent
Event(p, last, res, decision) ==
    [product_id |-> p.id, last |-> last, price |-> res.price,
     in_stock |-> res.in_stock, decision |-> decision, sent |-> decision]

RECURSIVE CheckLoop(_, _, _, _, _)
\* the loop over the active products from the i-th on (telegram_bot.py lines
\* 264-284 and 356-390, manage.py lines 57-69): the possible runs, each with
\* the history it leaves and the events of the products it saved, over all the
\* outcomes of the fetches. An exception of scrape_product ends the loop and
\* the handler.
CheckLoop(c, prods, t, i, run) ==
    IF i > Len(prods) THEN {run}
    ELSE UNION {
        IF res = Raised THEN {[run EXCEPT !.status = "raised"]}
        ELSE IF ~Truthy(res.price) THEN CheckLoop(c, prods, t, i + 1, run)
        ELSE UNION {
            CheckLoop(c, prods, t, i + 1, saved) :
            saved \in {[hist   |-> save_price(run.hist, prods[i].id, res.price,
                                              res.currency, res.in_stock, t),
                        events |-> Append(run.events,
                                          Event(prods[i], last, res,
                                                IF c = "telegram_bot.scheduled_check"
                                                THEN Decision(last, res) ELSE <<>>)),
                        status |-> run.status] :
                       last \in get_last_price(run.hist, prods[i].id)}} :
        res \in {scrape_product(c, prods[i], o.lo, o.ho) : o \in CheckOutcomes(c)}}

\* the notifications that reach the chat: a back-in-stock message is sent
\* inside the loop (lines 380-390), the drop alerts after it (lines 392-420)
Sent(run) ==
    [k \in DOMAIN run.events |->
        IF run.status = "raised"
        THEN [run.events[k] EXCEPT
                 !.sent = SelectSeq(run.events[k].decision, LAMBDA n : n # "drop")]
        ELSE run.events[k]]

\* a check starts while price_history has room for one record of every active
\* product; checks may fill it one record past what the commands that add do
CheckFits == Len(dbHistory) + Len(get_active_products(dbProducts)) <= MaxHistory + 1

\* the handler name in the record of the last command
HandlerName(c) ==
    CASE c = "telegram_bot.scheduled_check" -> "scheduled_check"
      [] c = "telegram_bot.cmd_chequear" -> "cmd_chequear"
      [] c = "manage.cmd_check" -> "cmd_check"

\* one check by caller c over all active products, from get_active_products to
\* the last notification
Check(c) ==
    /\ CheckFits
    /\ \E prods \in {get_active_products(dbProducts)} :
           IF prods = <<>>
           THEN /\ lastOp' = Op(HandlerName(c), <<>>, "", 0, 0, "no products", <<>>)
                /\ UNCHANGED dbHistory
           ELSE \E start \in {[hist |-> dbHistory, events |-> <<>>,
                               status |-> "completed"]} :
                \E run \in CheckLoop(c, prods, now, 1, start) :
                    /\ dbHistory' = run.hist
                    /\ lastOp' = Op(HandlerName(c), <<>>, "", 0, 0, run.status,
                                    IF c = "telegram_bot.scheduled_check"
                                    THEN Sent(run) ELSE run.events)
    /\ UNCHANGED <<dbProducts, now>>
    /\ UNCHANGED <<parseVars, detectVars, scrapeVars, parserVars, concVars>>

\* telegram_bot.py lines 347-427
scheduled_check == Check("telegram_bot.scheduled_check")

\* telegram_bot.py lines 252-288
cmd_chequear == Check("telegram_bot.cmd_chequear")

\* manage.py lines 51-69
cmd_check == Check("manage.cmd_check")

\* one parser called on one document
CallParser ==
    /\ pdata = NoCall
    /\ pdata' = Parser(pstore, pdoc)
    /\ UNCHANGED <<pstore, pdoc, parseVars, detectVars, scrapeVars, concVars, dbVars>>

----------------------------------------------------------------------------
(* Specifications *)

ParseIdle == text = <<>> /\ parsed = None /\ ppc = "done"
DetectIdle == url = <<>> /\ detected = "generic"
ScrapeIdle ==
    /\ pc = "idle" /\ caller = "" /\ product = NoProduct /\ store = ""
    /\ light = NoCall /\ heavy = NoCall /\ data = NoData
    /\ result = NoResult /\ trace = <<>> /\ session = NoSession
ParserIdle == pstore = "" /\ pdoc = NoCall /\ pdata = NoData
ConcIdle == threads = <<>> /\ rng = 0
NoOp == [kind |-> "none"]
DbIdle == dbProducts = <<>> /\ dbHistory = <<>> /\ now = 0 /\ lastOp = NoOp

\* scrape_product called from every caller, on every product, with every
\* outcome of the two fetches
Init == ParseIdle /\ DetectIdle /\ ScrapeIdle /\ ParserIdle /\ ConcIdle /\ DbIdle

Next ==
    \/ \E c \in Callers, p \in Products : Call(c, p)
    \/ Sleep
    \/ \E o \in LightOutcomes : Bs4(o)
    \/ \E o \in HeavyOutcomes : Playwright(o)
    \/ Return

Spec == Init /\ [][Next]_vars

\* parse_price_text on every text
InitParse ==
    /\ text \in Texts /\ parsed = None /\ ppc = "ready"
    /\ DetectIdle /\ ScrapeIdle /\ ParserIdle /\ ConcIdle /\ DbIdle

NextParse == ParsePrice

SpecParse == InitParse /\ [][NextParse]_vars

\* detect_store on every URL
InitDetect ==
    /\ url \in URLs /\ detected = ""
    /\ ParseIdle /\ ScrapeIdle /\ ParserIdle /\ ConcIdle /\ DbIdle

NextDetect == DetectStore

SpecDetect == InitDetect /\ [][NextDetect]_vars

\* scrape_product running in every thread, the steps interleaved in every way
InitConc ==
    /\ threads = [t \in Threads |-> ThreadStart(t)] /\ rng = 0
    /\ ParseIdle /\ DetectIdle /\ ScrapeIdle /\ ParserIdle /\ DbIdle

NextConc == \E t \in Threads : ThreadStep(t)

SpecConc == InitConc /\ [][NextConc]_vars

\* the commands over one database, in every order
InitDb == ParseIdle /\ DetectIdle /\ ScrapeIdle /\ ParserIdle /\ ConcIdle /\ DbIdle

NextDb ==
    \/ \E u \in CommandURLs, n \in CommandNames,
          lo \in CommandLight, ho \in CommandHeavy : cmd_add(u, n, lo, ho)
    \/ \E u \in CommandURLs \cup {NotAURL}, n \in CommandNames,
          lo \in CommandLight, ho \in CommandHeavy : cmd_agregar(u, n, lo, ho)
    \/ \E id \in CommandIds : cmd_remove(id)
    \/ \E id \in CommandIds : cmd_eliminar(id)
    \/ \E id \in CommandIds, limit \in 1..MaxLimit : GetPriceHistory(id, limit)
    \/ Tick

SpecDb == InitDb /\ [][NextDb]_vars

\* the checks among the commands that add and remove products
InitCheck == ParseIdle /\ DetectIdle /\ ScrapeIdle /\ ParserIdle /\ ConcIdle /\ DbIdle

NextCheck ==
    \/ \E u \in CommandURLs, lo \in CheckLight, ho \in CheckHeavy : cmd_add(u, "", lo, ho)
    \/ \E u \in CommandURLs, lo \in CheckLight : cmd_agregar(u, "", lo, lo)
    \/ \E id \in CommandIds : cmd_remove(id)
    \/ \E id \in CommandIds : cmd_eliminar(id)
    \/ scheduled_check
    \/ cmd_chequear
    \/ cmd_check
    \/ Tick

SpecCheck == InitCheck /\ [][NextCheck]_vars

\* the stores of the registry PARSERS
RegistryStores ==
    {"mercadolibre", "amazon", "hardgamers", "garbarino", "fravega",
     "musimundo", "fullh4rd", "generic"}

\* every parser of the registry on every document
InitParsers ==
    /\ pstore \in RegistryStores /\ pdoc \in Documents /\ pdata = NoCall
    /\ ParseIdle /\ DetectIdle /\ ScrapeIdle /\ ConcIdle /\ DbIdle

NextParsers == CallParser

SpecParsers == InitParsers /\ [][NextParsers]_vars

----------------------------------------------------------------------------
(* Properties of parse_price_text (SpecParse) *)

\* the text with everything but digits, ',' and '.' taken out
CleanedForm(t) == SelectSeq(t, LAMBDA c : c \in Digits \cup {",", "."})

HasDigit(s) == \E i \in 1..Len(s) : s[i] \in Digits

DigitsOnly(s) == SelectSeq(s, LAMBDA c : c \in Digits)

\* position of the last separator of s (s has one)
LastSep(s) ==
    CHOOSE i \in 1..Len(s) :
        /\ s[i] \in {",", "."}
        /\ \A j \in (i + 1)..Len(s) : s[j] \notin {",", "."}

\* the number whose integer part is the digits before the last separator and
\* whose fraction is the digits after it
NumberAtLastSep(s) ==
    LET k  == LastSep(s)
        ip == DigitsOnly(SubSeq(s, 1, k - 1))
        fp == DigitsOnly(SubSeq(s, k + 1, Len(s)))
    IN  Float(DigitsValue(ip \o fp), Len(fp))

BothSeparators(s) == Contains(s, ",") /\ Contains(s, ".")

\* C5, as stated: on every text with digits whose cleaned form has both ','
\* and '.', the result is the number split at the last separator.
C5_AsClaimed ==
    LET c == CleanedForm(text)
    IN  (ppc = "done" /\ BothSeparators(c) /\ HasDigit(c))
            => parsed = NumberAtLastSep(c)

\* C5, amended: on a text whose cleaned form has both ',' and '.', the result
\* is the number split at the last separator when the text has a digit and
\* the later separator occurs exactly once; otherwise the result is None.
C5_LaterSeparatorIsDecimal ==
    LET c == CleanedForm(text)
    IN  (ppc = "done" /\ BothSeparators(c))
            => parsed = IF HasDigit(c) /\ Count(c, c[LastSep(c)]) = 1
                        THEN NumberAtLastSep(c)
                        ELSE None

C5_Witness ==
    /\ ppc = "done"
    /\ text = <<"1", ".", "2", "3", "4", ".", "5", "6", "7", ",", "8", "9">>
    /\ parsed = Float(123456789, 2)

\* C6: parse_price_text("12.345") is 12345.
C6_SinglePeriodIsGrouping ==
    (ppc = "done" /\ text = <<"1", "2", ".", "3", "4", "5">>)
        => parsed = Float(12345, 0)

\* C7: on a text with digits whose cleaned form has no ',' and more than one
\* '.', the result is the number split at the last '.': the earlier periods
\* are dropped and the last one is the decimal point.
C7_LastPeriodIsDecimal ==
    LET c == CleanedForm(text)
    IN  (ppc = "done" /\ ~Contains(c, ",") /\ Count(c, ".") > 1 /\ HasDigit(c))
            => parsed = NumberAtLastSep(c)

C7_Witness ==
    /\ ppc = "done"
    /\ text = <<"1", ".", "2", "3", "4", ".", "5", "6", "7">>
    /\ parsed = Float(1234567, 3)

\* C8, as stated: on every text with digits whose cleaned form has ',' and no
\* '.', a number is returned.
C8_AsClaimed ==
    LET c == CleanedForm(text)
    IN  (ppc = "done" /\ Contains(c, ",") /\ ~Contains(c, ".") /\ HasDigit(c))
            => parsed.kind = "float"

\* C8, amended: on a text with digits whose cleaned form has ',' and no '.',
\* the result is the number split at the comma when there is exactly one
\* comma, and None when there are several.
C8_CommaIsDecimal ==
    LET c == CleanedForm(text)
    IN  (ppc = "done" /\ Contains(c, ",") /\ ~Contains(c, ".") /\ HasDigit(c))
            => parsed = IF Count(c, ",") = 1 THEN NumberAtLastSep(c) ELSE None

C8_Witness ==
    /\ ppc = "done"
    /\ text = <<"1", "2", ",", "5">>
    /\ parsed = Float(125, 1)

\* C9: parse_price_text never lets the ValueError of float() out, and a text
\* without digits (empty, only other characters, only separators) gives None.
C9_NeverRaises ==
    ppc = "done"
        => /\ parsed.kind \in {"float", "None"}
           /\ ~HasDigit(CleanedForm(text)) => parsed = None

C9_Witness ==
    /\ ppc = "done"
    /\ text = <<"7", ",", ",", "7">>
    /\ parsed = None

----------------------------------------------------------------------------
(* Properties of detect_store (SpecDetect) *)

StoreIds ==
    {"mercadolibre", "amazon", "hardgamers", "garbarino", "fravega",
     "musimundo", "fullh4rd", "generic"}

StoreOrder ==
    << [id |-> "mercadolibre", subs |-> {S_mercadolibre, S_meli}],
       [id |-> "amazon",       subs |-> {S_amazon}],
       [id |-> "hardgamers",   subs |-> {S_hardgamers}],
       [id |-> "garbarino",    subs |-> {S_garbarino}],
       [id |-> "fravega",      subs |-> {S_fravega}],
       [id |-> "musimundo",    subs |-> {S_musimundo}],
       [id |-> "fullh4rd",     subs |-> {S_fullh4rd}] >>

\* C10: detect_store returns the first store of the order whose substring
\* occurs in the lower-cased URL, generic when none does, and always one of
\* the eight identifiers.
C10_FirstMatchWins ==
    detected # "" =>
        LET hits == {i \in 1..Len(StoreOrder) :
                        \E sub \in StoreOrder[i].subs : In(sub, Lower(url))}
        IN  /\ detected \in StoreIds
            /\ hits = {} => detected = "generic"
            /\ hits # {} =>
                 detected = StoreOrder[CHOOSE i \in hits : \A j \in hits : i <= j].id

C10_Witness ==
    /\ url = <<"A", "M", "A", "Z", "O", "N", "M", "e", "L", "i">>
    /\ detected = "mercadolibre"

----------------------------------------------------------------------------
(* Properties of scrape_product (Spec) *)

ErrorSet(r) == ~r.error.isNone /\ r.error.msg # ""

\* C1: the ScrapeResult returned has price None exactly when its error is a
\* non-empty description.
C1_PriceNoneIffError ==
    pc = "done" => ((result.price = None) <=> ErrorSet(result))

C1_Witness ==
    /\ pc = "done"
    /\ result.price = None
    /\ ErrorSet(result)
    /\ product.store = ""

\* C2: when the lightweight strategy returned no data and the heavy strategy
\* returned data with a price, the result carries the heavy strategy's price,
\* currency and stock flag and no error; and no Failed result is returned
\* before the heavy strategy was called.
C2_FallbackToHeavy ==
    pc = "done" =>
        /\ (light = NoData /\ heavy.kind = "dict") =>
              /\ result.price = heavy.price
              /\ result.price # None
              /\ result.currency = heavy.currency
              /\ result.in_stock = heavy.in_stock
              /\ result.error = NoError
        /\ result.price = None =>
              /\ heavy # NoCall
              /\ trace = <<"sleep", "bs4", "playwright">>

C2_Witness ==
    /\ pc = "done"
    /\ light = NoData
    /\ heavy.kind = "dict"
    /\ result.price = Float(75, 1)
    /\ result.currency = "EUR"
    /\ ~result.in_stock

\* C3: when both strategies returned no data, the result has no price, a
\* non-empty error, in_stock false, and the id, name and url of the input.
C3_FailedResult ==
    (pc = "done" /\ light = NoData /\ heavy = NoData) =>
        /\ result.price = None
        /\ ErrorSet(result)
        /\ result.in_stock = FALSE
        /\ result.name = product.name
        /\ result.product_id = product.id
        /\ result.url = product.url

C3_Witness ==
    /\ pc = "done"
    /\ light = NoData
    /\ heavy = NoData
    /\ result.name = "GPU"
    /\ result.product_id = 1

\* C4: scrape_product never raises to its caller, whoever the caller is.
C4_NeverRaises == pc # "raised"

----------------------------------------------------------------------------
(* Order of the steps of scrape_product, name of the result, browser session
   (Spec) *)

Terminated == pc \in {"done", "raised"}

\* C11: the pacing delay is applied exactly once in every execution, before
\* the lightweight attempt and before the heavy attempt, never between them.
C11_OneDelayFirst ==
    /\ Count(trace, "sleep") <= 1
    /\ trace # <<>> => trace[1] = "sleep"
    /\ Terminated => Count(trace, "sleep") = 1

C11_Witness ==
    /\ pc = "done"
    /\ trace = <<"sleep", "bs4", "playwright">>

\* C12: each strategy is invoked at most once, the lightweight one first; the
\* heavy one only after the lightweight one yielded no price; and after the
\* heavy attempt the call ends in Success or Failed.
C12_TwoAttemptsThenResult ==
    /\ Count(trace, "bs4") <= 1
    /\ Count(trace, "playwright") <= 1
    /\ Contains(trace, "playwright") =>
          /\ trace = <<"sleep", "bs4", "playwright">>
          /\ light = NoData
          /\ pc \in {"assemble", "done"}
    /\ pc = "done" => (result.price # None \/ ErrorSet(result))

\* the strategy whose data the result is built from
Succeeded == IF light # NoData THEN light ELSE heavy

\* C13: on Success the name of the result is the name found by the parser of
\* the strategy that succeeded when that name is non-empty, and the name of
\* the input descriptor otherwise.
C13_ParserNameFirst ==
    (pc = "done" /\ result.price # None) =>
        result.name = IF Succeeded.name # "" THEN Succeeded.name ELSE product.name

C13_Witness ==
    /\ pc = "done"
    /\ result.price # None
    /\ heavy.kind = "dict"
    /\ heavy.name = "Parsed title"
    /\ result.name = "Parsed title"
    /\ product.name = "GPU"

----------------------------------------------------------------------------
(* Properties of the store parsers (SpecParsers) *)

UsesGeneric(st) == st \notin {"mercadolibre", "amazon", "hardgamers"}

\* the price candidates of a store's parser, in selector order
CandsOf(st) == IF st \in {"mercadolibre", "hardgamers"} THEN 1..2 ELSE 1..NumCands

\* the text a parser normalizes for candidate i
CandText(st, doc, i) ==
    LET t == doc.cands[i].text
    IN  IF st = "mercadolibre" /\ i = 1 THEN WithFraction(doc, t)
        ELSE IF st = "amazon" /\ ~Contains(t, ".") THEN WithFraction(doc, t)
        ELSE t

CandPrice(st, doc, i) ==
    IF doc.cands[i].present THEN parse_price_text(CandText(st, doc, i)) ELSE None

\* C19: the price is the one of the first candidate, in selector order, whose
\* text normalizes to a price; a candidate that is present but does not
\* normalize does not stop the search.  (Stated for the documents on which
\* every candidate is a price above zero or no number at all.)
C19_FirstNormalizableWins ==
    (pdata # NoCall
        /\ \A i \in CandsOf(pstore) :
              CandPrice(pstore, pdoc, i) = None \/ Truthy(CandPrice(pstore, pdoc, i)))
    => LET good == {i \in CandsOf(pstore) : Truthy(CandPrice(pstore, pdoc, i))}
       IN  pdata.price = IF good = {} THEN None
                         ELSE CandPrice(pstore, pdoc,
                                        CHOOSE i \in good : \A j \in good : i <= j)

UnavailabilityPhrases == {P_sin_stock, P_agotado, P_out_of_stock, P_unavailable}

\* C20: every parser of the registry gives in_stock false when the document
\* has an unavailability phrase, in any case, and true when it has none.
C20_StockFromPhrase ==
    pdata # NoCall =>
        pdata.in_stock = ~(\E ph \in UnavailabilityPhrases : In(ph, Lower(pdoc.stockText)))

----------------------------------------------------------------------------
(* Properties of concurrent calls (SpecConc) *)

\* C15: under every interleaving, a call of scrape_product returns the
\* ScrapeResult it returns when run alone on the same documents.
C15_NoInterference ==
    \A t \in Threads :
        threads[t].pc = "done" =>
            threads[t].result =
                scrape_product("thread", threads[t].product, threads[t].lo,
                               IF threads[t].ho = NoCall
                               THEN [kind |-> "navigation_timeout"]
                               ELSE threads[t].ho)

\* two calls whose fetches were interleaved (each drew from `ua` between the
\* draws of the other) and that found different things
C15_Witness ==
    /\ threads[1].pc = "done" /\ threads[2].pc = "done"
    /\ threads[1].agents = <<0, 2>>
    /\ threads[2].agents = <<1, 3>>
    /\ threads[1].result.price # None
    /\ threads[2].result.price = None

----------------------------------------------------------------------------
(* Properties of the database commands (SpecDb) *)

\* the rows get_price_history should return: the last `limit` rows of an
\* ascending order of the product's records
MostRecent(hist, pid, limit) ==
    {[k \in 1..(IF Len(o) < limit THEN Len(o) ELSE limit) |->
         Columns(hist[o[(IF Len(o) < limit THEN 0 ELSE Len(o) - limit) + k]])] :
        o \in AscendingOrders(hist, pid)}

\* C16: get_price_history(product_id, limit) returns the most recent `limit`
\* records of the product in ascending checked_at order; with more than
\* `limit` records the oldest ones are left out.
C16_MostRecentRows ==
    lastOp.kind = "get_price_history" =>
        lastOp.rows \in MostRecent(dbHistory, lastOp.id, lastOp.limit)

Added(op) ==
    /\ op.kind \in {"cmd_add", "cmd_agregar"}
    /\ op.status \in {"added with price", "added without price"}

\* C17: after any sequence of add_product and remove_product calls,
\* add_product returns the id of a product that is in get_active_products(),
\* and the url has one row only.
C17_AddedIsMonitored ==
    Added(lastOp) =>
        /\ \E i \in DOMAIN get_active_products(dbProducts) :
               get_active_products(dbProducts)[i].id = lastOp.id
        /\ Cardinality({i \in DOMAIN dbProducts : dbProducts[i].url = lastOp.url}) = 1

\* C18: /agregar with a url and a product name stores the product even when
\* the price cannot be extracted.
C18_NamedProductIsStored ==
    (/\ lastOp.kind = "cmd_agregar"
     /\ StartsWith(lastOp.url, Http)
     /\ lastOp.name # "")
        => \E i \in DOMAIN dbProducts : dbProducts[i].url = lastOp.url

----------------------------------------------------------------------------
(* Properties of the price checks (SpecCheck) *)

CheckKinds == {"scheduled_check", "cmd_chequear", "cmd_check"}

\* C21: after any sequence of bot commands, CLI commands and scheduled checks,
\* every record of price_history has a price that is not None and is
\* greater than 0.
C21_HistoryPricesPositive ==
    \A i \in DOMAIN dbHistory :
        dbHistory[i].price.kind = "float" /\ dbHistory[i].price.m > 0

\* a completed check that saved a record for one active product and none for
\* another, whose extraction gave no price
C21_Witness ==
    /\ lastOp.kind \in CheckKinds
    /\ lastOp.status = "completed"
    /\ Len(lastOp.rows) = 1
    /\ Len(get_active_products(dbProducts)) = 2
    /\ dbHistory # <<>>

\* the records price_history held before the last check saved its own
Before == SubSeq(dbHistory, 1, Len(dbHistory) - Len(lastOp.rows))

\* ev.last is what a query before the save finds: a record of an earlier check
\* of the product with the latest checked_at, or None when there is none
ReadBeforeSave(ev) ==
    LET I == {i \in DOMAIN Before : Before[i].product_id = ev.product_id}
    IN  IF I = {} THEN ev.last = NoRow
        ELSE \E i \in I :
                /\ ev.last = Columns(Before[i])
                /\ \A k \in I : Before[k].checked_at <= Before[i].checked_at

\* the change of ev is a drop of DROP_THRESHOLD percent or more
ChangeIsDrop(ev) == ev.last # NoRow /\ IsDrop(ev.last.price, ev.price)

\* C22: in scheduled_check, for each product with a successful extraction, the
\* previous price is read before the new one is saved, and at most one
\* notification is produced: a drop alert when the change is <=
\* -DROP_THRESHOLD, otherwise a back-in-stock message only when the previous
\* record was out of stock and the new result is in stock.
C22_ReadThenSaveOneNotification ==
    lastOp.kind = "scheduled_check" =>
        \A k \in DOMAIN lastOp.rows :
            LET ev == lastOp.rows[k]
            IN  /\ ReadBeforeSave(ev)
                /\ Len(ev.sent) <= 1
                /\ ChangeIsDrop(ev) => ev.sent = <<"drop">>
                /\ ~ChangeIsDrop(ev) /\ ev.sent # <<>> =>
                       /\ ev.sent = <<"back in stock">>
                       /\ ~ev.last.in_stock /\ ev.in_stock

-----------------------------------------------------------------------------
(* Properties of the removal of a product (SpecDb) *)

\* a step in which a command called remove_product(id)
Removes(id) ==
    /\ lastOp' # lastOp
    /\ lastOp'.kind \in {"cmd_remove", "cmd_eliminar"}
    /\ lastOp'.status = "removed"
    /\ lastOp'.id = id

\* C23: remove_product(id) is a soft delete: it only clears the active flag of
\* that product, so afterwards the product is absent from
\* get_active_products() while its row, every other product's row and active
\* flag, and all price_history records (including those of the removed
\* product) are unchanged.
C23_SoftDelete ==
    [][\A id \in CommandIds : Removes(id) =>
          /\ \A k \in DOMAIN get_active_products(dbProducts') :
                 get_active_products(dbProducts')[k].id # id
          /\ DOMAIN dbProducts' = DOMAIN dbProducts
          /\ \A i \in DOMAIN dbProducts :
                 /\ dbProducts'[i].id = dbProducts[i].id
                 /\ dbProducts'[i].url = dbProducts[i].url
                 /\ dbProducts'[i].name = dbProducts[i].name
                 /\ dbProducts'[i].store = dbProducts[i].store
                 /\ dbProducts[i].id # id => dbProducts'[i].active = dbProducts[i].active
          /\ dbHistory' = dbHistory]_vars

\* a product with a price record was removed while another one stays monitored
C23_Witness ==
    /\ lastOp.kind \in {"cmd_remove", "cmd_eliminar"} /\ lastOp.status = "removed"
    /\ \E i \in DOMAIN dbProducts : dbProducts[i].id = lastOp.id /\ ~dbProducts[i].active
    /\ \E j \in DOMAIN dbHistory : dbHistory[j].product_id = lastOp.id
    /\ get_active_products(dbProducts) # <<>>

====
